---- MODULE Spec2Model ----
(***************************************************************************)
(* Film Shoot Planner & Roll Logger (src/film_roll_logger.py).             *)
(*                                                                         *)
(* The program is a Streamlit script: every user interaction re-runs the   *)
(* whole script from top to bottom against the session state.  One action  *)
(* of this model is one such re-run, triggered by one widget interaction:  *)
(* it contains the sidebar's import block (which runs on every re-run      *)
(* while a file sits in the uploader), the handler of the clicked button   *)
(* and nothing else.  The library directory is a map from file names to    *)
(* parsed CSV tables.                                                      *)
(***************************************************************************)
EXTENDS Integers, Sequences, FiniteSets, TLC

VARIABLES
    roll_df,           \* st.session_state.roll_df (None or a DataFrame)
    reset_pending,     \* st.session_state.reset_pending
    mobile_frame_idx,  \* st.session_state.mobile_frame_idx
    lenses,            \* st.session_state.lenses (rows of the lens table)
    frames,            \* sidebar selectbox "Number of frames"
    iso_set,           \* sidebar selectbox "ISO set on camera (rating)"
    mobile_mode,       \* sidebar toggle "Mobile mode"
    uploaded,          \* the file sitting in st.file_uploader, or NoUpload
    sel,               \* sidebar selectbox "Open a saved roll"
    lib_files,         \* the options that selectbox was last rendered with
    library,           \* the directory DATA_DIR: file name -> file contents
    now,               \* the wall clock, in seconds
    nEdits,            \* number of "Save frame" clicks so far (model bound)
    event,             \* the interaction of the last re-run and its outcome
    project_name,      \* sidebar text input "Project name"
    camera,            \* sidebar text input "Camera"
    film_type,         \* sidebar text input "Film (type/stock)"
    roll_date,         \* sidebar date input "Date shot"
    q,                 \* library browser text input "Search"
    sort_new_first,    \* library browser checkbox "Newest first"
    filter_date,       \* library browser text input "Filter by date"
    mtime              \* the time each file of DATA_DIR was last written

\* The text, date and browser widgets of the page.
page_inputs == <<project_name, camera, film_type, roll_date, q, sort_new_first,
                 filter_date>>

vars == <<roll_df, reset_pending, mobile_frame_idx, lenses, frames, iso_set,
          mobile_mode, uploaded, sel, lib_files, library, now, nEdits, event,
          page_inputs, mtime>>

----------------------------------------------------------------------------
(* Bounds of the model                                                      *)

MaxClock == 1      \* the clock runs over 0..MaxClock seconds
MaxEdits == 1      \* at most this many "Save frame" clicks in a session
MaxFiles == 2      \* the library directory holds at most this many files

----------------------------------------------------------------------------
(* Constants & helpers (lines 39-55)                                        *)

\* A shutter time num/den seconds is the pair <<num, den>>.
STANDARD_SHUTTERS ==
    << <<30, 1>>, <<15, 1>>, <<8, 1>>, <<4, 1>>, <<2, 1>>, <<1, 1>>,
       <<1, 2>>, <<1, 4>>, <<1, 8>>, <<1, 15>>, <<1, 30>>, <<1, 60>>,
       <<1, 125>>, <<1, 250>>, <<1, 500>>, <<1, 1000>>, <<1, 2000>>,
       <<1, 4000>> >>

\* f-numbers in tenths: 1.4 is 14.
F_STOPS == <<10, 14, 20, 28, 40, 56, 80, 110, 160, 220, 320>>

ISO_CHOICES ==
    <<25, 32, 40, 50, 64, 80, 100, 125, 160, 200, 250, 320,
      400, 500, 640, 800, 1000, 1250, 1600, 2000, 2500, 3200,
      4000, 5000, 6400, 8000, 10000, 12800>>

\* f"{int(t)}s" if t >= 1 else f"1/{int(round(1/t))}s"
fmt_shutter(t) ==
    IF t[1] >= t[2]
    THEN ToString(t[1] \div t[2]) \o "s"
    ELSE "1/" \o ToString((2 * t[2] + t[1]) \div (2 * t[1])) \o "s"

\* f"f/{a:g}": the shortest representation, a trailing .0 dropped
fmt_aperture(a) ==
    IF a % 10 = 0
    THEN "f/" \o ToString(a \div 10)
    ELSE "f/" \o ToString(a \div 10) \o "." \o ToString(a % 10)

Range(s) == {s[i] : i \in DOMAIN s}

SHUTTER_CHOICES == [i \in DOMAIN STANDARD_SHUTTERS |-> fmt_shutter(STANDARD_SHUTTERS[i])]
APERTURE_CHOICES == [i \in DOMAIN F_STOPS |-> fmt_aperture(F_STOPS[i])]

FRAME_OPTIONS == <<12, 24, 27, 36>>

default_shutter == "1/125s"
default_aperture == "f/8"

editor_cols == <<"Frame #", "ISO", "Shutter", "Aperture", "Lens", "Notes">>
meta_cols == <<"Project", "Camera", "Date Shot", "Film", "Film ISO", "ISO Set">>

\* Python's None for roll_df: the value that is no DataFrame (no columns).
None == [columns |-> <<>>, rows |-> <<>>]

\* pandas' NaN, the float a missing cell is read as; it equals no str.
NaN == "<NaN>"

----------------------------------------------------------------------------
(* Project Setup widgets left at their initial values (line 106)            *)

film_iso == 400

\* date.today() when the session starts (line 102)
today == [year |-> 2024, month |-> 5, day |-> 1]

\* The wall clock when the session starts: 12:09:59 of that day.
SessionStart == [hour |-> 12, minute |-> 9, second |-> 59]

----------------------------------------------------------------------------
(* Text and file-name helpers of save_roll_csv (lines 60-67)                *)

WHITESPACE == {" ", "\t", "\n"}

\* The character of s at position i (1-based), "" beyond its end.
char(s, i) == SubSeq(s, i, i)

RECURSIVE lstrip(_)
lstrip(s) == IF s # "" /\ Head(s) \in WHITESPACE THEN lstrip(Tail(s)) ELSE s

RECURSIVE rstrip(_)
rstrip(s) ==
    IF s # "" /\ char(s, Len(s)) \in WHITESPACE
    THEN rstrip(SubSeq(s, 1, Len(s) - 1))
    ELSE s

\* str.strip()
strip(s) == rstrip(lstrip(s))

RECURSIVE replace(_, _, _)
\* str.replace(old, new) for a one-character old
replace(s, old, new) ==
    IF s = "" THEN ""
    ELSE (IF Head(s) = old THEN new ELSE Head(s)) \o replace(Tail(s), old, new)

\* Pad2 without the leading zero.
Pad2NoZero(n) == ToString(n)

\* A number printed on two digits (%m, %d, %H, %M, %S)
Pad2(n) == IF n < 10 THEN "0" \o ToString(n) ELSE ToString(n)

\* roll_date.strftime("%Y-%m-%d")
strftime_date(d) == ToString(d.year) \o "-" \o Pad2(d.month) \o "-" \o Pad2(d.day)

\* datetime.now() at clock second t of the session, as seconds of the day
second_of_day(t) ==
    SessionStart.hour * 3600 + SessionStart.minute * 60 + SessionStart.second + t

\* datetime.now().strftime("%Y%m%d_%H%M%S") at clock second t of the session;
\* the session ends before midnight.
strftime_now(t) ==
    ToString(today.year) \o Pad2(today.month) \o Pad2(today.day) \o "_"
        \o Pad2(second_of_day(t) \div 3600)
        \o Pad2((second_of_day(t) % 3600) \div 60)
        \o Pad2(second_of_day(t) % 60)

\* fname of save_roll_csv (lines 61-66) for the given Project Setup
save_fname(t, date, project, cam, film, n) ==
    strftime_now(t) \o "__" \o strftime_date(date)
        \o "__" \o replace(strip(project), " ", "_")
        \o "__" \o replace(strip(cam), " ", "_")
        \o "__" \o replace(strip(film), " ", "_")
        \o "__" \o ToString(n) \o "f.csv"

\* fname of the save clicked at second t with n frames selected
roll_fname(t, n) == save_fname(t, roll_date, project_name, camera, film_type, n)

\* dest_name of the import block (line 117)
import_fname(t, name) == strftime_now(t) \o "__imported_" \o name

----------------------------------------------------------------------------
(* DataFrames and CSV files                                                 *)
(* A DataFrame is [columns, rows]; a row maps each column name to a cell.   *)
(* A CSV file is the same shape with every cell as written in the file.     *)

\* Columns holding integers: their cells are written as decimal digits and
\* parsed back to the same integer.
numeric_cols == {"Frame #", "ISO", "Film ISO", "ISO Set"}

\* The strings pd.read_csv reads as a missing value (keep_default_na=True).
NA_VALUES ==
    {"", "#N/A", "#N/A N/A", "#NA", "-1.#IND", "-1.#QNAN", "-NaN", "-nan",
     "1.#IND", "1.#QNAN", "<NA>", "N/A", "NA", "NULL", "NaN", "None", "n/a",
     "nan", "null"}

\* The text DataFrame.to_csv writes for a cell: a missing value as nothing.
csv_cell(c, v) == IF c \in numeric_cols THEN v ELSE IF v = NaN THEN "" ELSE v

\* The value pd.read_csv parses a cell to.
parse_cell(c, txt) ==
    IF c \in numeric_cols THEN txt ELSE IF txt \in NA_VALUES THEN NaN ELSE txt

\* DataFrame.to_csv(path, index=False)
to_csv(df) ==
    [columns |-> df.columns,
     rows |-> [i \in DOMAIN df.rows |->
                 [c \in Range(df.columns) |-> csv_cell(c, df.rows[i][c])]]]

\* pd.read_csv(path)
read_csv(file) ==
    [columns |-> file.columns,
     rows |-> [i \in DOMAIN file.rows |->
                 [c \in Range(file.columns) |-> parse_cell(c, file.rows[i][c])]]]

\* df[cols].copy()
select_cols(df, cols) ==
    [columns |-> cols,
     rows |-> [i \in DOMAIN df.rows |-> [c \in Range(cols) |-> df.rows[i][c]]]]

\* The characters of the model's file names, in code-point order.
CHARS == " +,-./0123456789ABCDEFGHIJKLMNOPQRSTUVWXYZ_abcdefghijklmnopqrstuvwxyz"

\* The rank of each character in the order Python compares str by.
code_points ==
    [c \in {char(CHARS, i) : i \in 1..Len(CHARS)} |->
        CHOOSE i \in 1..Len(CHARS) : char(CHARS, i) = c]

ord(c) == code_points[c]

RECURSIVE str_lt(_, _)
\* a < b for two str
str_lt(a, b) ==
    IF b = "" THEN FALSE
    ELSE IF a = "" THEN TRUE
    ELSE IF Head(a) = Head(b) THEN str_lt(Tail(a), Tail(b))
    ELSE ord(Head(a)) < ord(Head(b))

RECURSIVE sorted(_)
\* sorted(...) of a collection of distinct str
sorted(S) ==
    IF S = {} THEN <<>>
    ELSE LET least == CHOOSE x \in S : \A y \in S : y = x \/ str_lt(x, y)
         IN <<least>> \o sorted(S \ {least})

\* str.endswith
endswith(s, suffix) ==
    Len(s) >= Len(suffix) /\ SubSeq(s, Len(s) - Len(suffix) + 1, Len(s)) = suffix

\* list_roll_files (lines 57-58)
list_roll_files(lib) == sorted({f \in DOMAIN lib : endswith(f, ".csv")})

\* The modification times after the files named in names were written at t.
touch(mt, names, t) ==
    [f \in (DOMAIN mt) \cup names |-> IF f \in names THEN t ELSE mt[f]]

\* write_file leaving a file that exists as it is.
write_file_once(lib, name, content) ==
    [f \in (DOMAIN lib) \cup {name} |-> IF f \in DOMAIN lib THEN lib[f] ELSE content]

\* open(path, "w") / to_csv(path): create the file or overwrite it.
write_file(lib, name, content) ==
    [f \in (DOMAIN lib) \cup {name} |-> IF f = name THEN content ELSE lib[f]]

\* load_roll_csv (lines 79-81)
load_roll_csv(lib, filename) == read_csv(lib[filename])

\* export_df of save_roll_csv (lines 69-75): the six metadata columns are
\* inserted in front, the same value on every row.
export_with_meta(df, iso) ==
    [columns |-> meta_cols \o df.columns,
     rows |-> [i \in DOMAIN df.rows |->
        [c \in Range(meta_cols) \cup Range(df.columns) |->
            CASE c = "Project" -> project_name
              [] c = "Camera" -> camera
              [] c = "Date Shot" -> strftime_date(roll_date)
              [] c = "Film" -> film_type
              [] c = "Film ISO" -> film_iso
              [] c = "ISO Set" -> iso
              [] OTHER -> df.rows[i][c]]]]

\* save_roll_csv (lines 60-77): the library after the save at second t.
save_roll_csv(lib, df, iso, n, t) ==
    write_file(lib, roll_fname(t, n), to_csv(export_with_meta(df, iso)))

----------------------------------------------------------------------------
(* Inputs the user draws from                                               *)

IsoInputs == {400, 800}
ShutterInputs == {"1/60s"}
ApertureInputs == {"f/2.8"}
NoteInputs == {"backlit, +1 stop"}
LensInputs == {"Nikkor 50mm f/1.8"}
GridInputs == {"ISO", "Notes"}

\* Texts typed into the Project Setup: a name with two spaces in a row, a
\* project named after a day, a name with an underscore.
ProjectInputs == {"Untitled Project", "Trip  North", "2024-05-02"}
CameraInputs == {"My Camera", "Nikon_FM2 "}
FilmInputs == {"Kodak Tri-X 400", "HP5  Plus"}
DateInputs == {today, [year |-> 2024, month |-> 5, day |-> 2]}

\* Texts typed into the browser's search and date filter.
QueryInputs == {"", "IMPORTED", "kodak"}
FilterDateInputs == {"", "2024-05-01", "2024-05-02"}

NoUpload == [name |-> "", bytes |-> None]

\* A CSV of some other tool: it has no Lens column.
ForeignCsv ==
    [name |-> "scan.csv",
     bytes |-> [columns |-> <<"Frame #", "ISO", "Shutter", "Aperture", "Notes">>,
                rows |-> << [c \in {"Frame #", "ISO", "Shutter", "Aperture", "Notes"} |->
                               CASE c = "Frame #" -> 1
                                 [] c = "ISO" -> 200
                                 [] c = "Shutter" -> "1/60s"
                                 [] c = "Aperture" -> "f/4"
                                 [] c = "Notes" -> "test" ] >>]]

OddRow(n, iso, sh, lens, notes) ==
    [c \in Range(editor_cols) |->
        CASE c = "Frame #" -> n
          [] c = "ISO" -> iso
          [] c = "Shutter" -> sh
          [] c = "Aperture" -> "f/8"
          [] c = "Lens" -> lens
          [] c = "Notes" -> notes]

\* A CSV with every editor column, written by hand or by another session:
\* frame numbers 3 and 1, a shutter and an ISO outside the catalogs, a lens
\* this session never added.
OddRollCsv ==
    [name |-> "old_roll.csv",
     bytes |-> [columns |-> editor_cols,
                rows |-> << OddRow(3, 100, "1/100s", "Zeiss 35mm", "cloudy"),
                            OddRow(1, 3000, "1/125s", "", "") >>]]

UploadInputs == {ForeignCsv, OddRollCsv}

NoSel == "- select -"

\* The button clicked in a re-run, the status message it led to and what of
\* the existing data the click replaced: for an edit the fields the user
\* changed, for a save the file that was already there.  A re-run triggered by another kind of
\* widget has no clicked button.
Ev(w, o, e) == [widget |-> w, outcome |-> o, edited |-> e]
NoEvent == Ev("", "", {})

----------------------------------------------------------------------------
(* Session init (lines 86-93) and the widgets' initial values               *)

Init ==
    /\ roll_df = None
    /\ reset_pending = FALSE
    /\ mobile_frame_idx = 1
    /\ lenses = <<>>
    /\ frames = FRAME_OPTIONS[4]
    /\ iso_set = 400
    /\ mobile_mode = FALSE
    /\ uploaded = NoUpload
    /\ sel = NoSel
    /\ lib_files = <<>>
    /\ library = [f \in {} |-> None]
    /\ now = 0
    /\ nEdits = 0
    /\ event = NoEvent
    /\ project_name = "Untitled Project"
    /\ camera = "My Camera"
    /\ film_type = "Kodak Tri-X 400"
    /\ roll_date = today
    /\ q = ""
    /\ sort_new_first = TRUE
    /\ filter_date = ""
    /\ mtime = [f \in {} |-> 0]

----------------------------------------------------------------------------
(* The sidebar part of every re-run (lines 114-124)                         *)

\* Lines 115-121: while a file sits in the uploader, every re-run writes it
\* into the library under the current timestamp.
import_block(lib, up, t) ==
    IF up = NoUpload THEN lib ELSE write_file(lib, import_fname(t, up.name), up.bytes)

\* The files the import block writes in a re-run at second t.
import_written(up, t) == IF up = NoUpload THEN {} ELSE {import_fname(t, up.name)}

\* Line 124: the selectbox has no key, so it keeps its value only while it
\* is rendered with the same options; with other options it is a new widget
\* showing its first option.
kept_sel(options, value) == IF options = lib_files THEN value ELSE NoSel

\* The directory has room for the files of lib.
fits(lib) == Cardinality(DOMAIN lib) <= MaxFiles

\* The sidebar of a re-run in which the user touched none of its widgets.
Sidebar ==
    /\ library' = import_block(library, uploaded, now)
    /\ mtime' = touch(mtime, import_written(uploaded, now), now)
    /\ fits(library')
    /\ lib_files' = list_roll_files(library')
    /\ sel' = kept_sel(lib_files', sel)
    /\ UNCHANGED <<uploaded, now>>

----------------------------------------------------------------------------
(* Project Setup (lines 103-110)                                            *)

\* The user picks another "Number of frames".
SetFrames(n) ==
    /\ n # frames
    /\ frames' = n
    /\ Sidebar
    /\ event' = NoEvent
    /\ UNCHANGED <<roll_df, reset_pending, mobile_frame_idx, lenses, iso_set,
                   mobile_mode, nEdits>>
    /\ UNCHANGED page_inputs

\* The user picks another "ISO set on camera".
SetIsoSet(i) ==
    /\ i # iso_set
    /\ iso_set' = i
    /\ Sidebar
    /\ event' = NoEvent
    /\ UNCHANGED <<roll_df, reset_pending, mobile_frame_idx, lenses, frames,
                   mobile_mode, nEdits>>
    /\ UNCHANGED page_inputs

\* The user types another "Project name" (line 100).
SetProjectName(v) ==
    /\ v # project_name
    /\ project_name' = v
    /\ Sidebar
    /\ event' = NoEvent
    /\ UNCHANGED <<roll_df, reset_pending, mobile_frame_idx, lenses, frames,
                   iso_set, mobile_mode, nEdits>>
    /\ UNCHANGED <<camera, film_type, roll_date, q, sort_new_first, filter_date>>

\* The user types another "Camera" (line 101).
SetCamera(v) ==
    /\ v # camera
    /\ camera' = v
    /\ Sidebar
    /\ event' = NoEvent
    /\ UNCHANGED <<roll_df, reset_pending, mobile_frame_idx, lenses, frames,
                   iso_set, mobile_mode, nEdits>>
    /\ UNCHANGED <<project_name, film_type, roll_date, q, sort_new_first,
                   filter_date>>

\* The user types another "Film (type/stock)" (line 104).
SetFilmType(v) ==
    /\ v # film_type
    /\ film_type' = v
    /\ Sidebar
    /\ event' = NoEvent
    /\ UNCHANGED <<roll_df, reset_pending, mobile_frame_idx, lenses, frames,
                   iso_set, mobile_mode, nEdits>>
    /\ UNCHANGED <<project_name, camera, roll_date, q, sort_new_first,
                   filter_date>>

\* The user picks another "Date shot" (line 102).
SetRollDate(d) ==
    /\ d # roll_date
    /\ roll_date' = d
    /\ Sidebar
    /\ event' = NoEvent
    /\ UNCHANGED <<roll_df, reset_pending, mobile_frame_idx, lenses, frames,
                   iso_set, mobile_mode, nEdits>>
    /\ UNCHANGED <<project_name, camera, film_type, q, sort_new_first,
                   filter_date>>

\* The user flips the "Mobile mode" toggle.
ToggleMobile ==
    /\ mobile_mode' = ~mobile_mode
    /\ Sidebar
    /\ event' = NoEvent
    /\ UNCHANGED <<roll_df, reset_pending, mobile_frame_idx, lenses, frames,
                   iso_set, nEdits>>
    /\ UNCHANGED page_inputs

----------------------------------------------------------------------------
(* Roll Library in the sidebar (lines 113-135)                              *)

\* The user drops a file into the uploader (lines 114-121).
Upload(u) ==
    /\ uploaded = NoUpload
    /\ uploaded' = u
    /\ library' = import_block(library, u, now)
    /\ mtime' = touch(mtime, import_written(u, now), now)
    /\ fits(library')
    /\ lib_files' = list_roll_files(library')
    /\ sel' = kept_sel(lib_files', sel)
    /\ event' = NoEvent
    /\ UNCHANGED <<roll_df, reset_pending, mobile_frame_idx, lenses, frames,
                   iso_set, mobile_mode, now, nEdits>>
    /\ UNCHANGED page_inputs

\* The user removes the file from the uploader.
ClearUpload ==
    /\ uploaded # NoUpload
    /\ uploaded' = NoUpload
    /\ library' = import_block(library, NoUpload, now)
    /\ mtime' = touch(mtime, import_written(NoUpload, now), now)
    /\ lib_files' = list_roll_files(library')
    /\ sel' = kept_sel(lib_files', sel)
    /\ event' = NoEvent
    /\ UNCHANGED <<roll_df, reset_pending, mobile_frame_idx, lenses, frames,
                   iso_set, mobile_mode, now, nEdits>>
    /\ UNCHANGED page_inputs

\* The user picks a file in "Open a saved roll" (lines 124-128).
SelectFile(f) ==
    /\ f \in Range(lib_files)
    /\ f # sel
    /\ library' = import_block(library, uploaded, now)
    /\ mtime' = touch(mtime, import_written(uploaded, now), now)
    /\ fits(library')
    /\ lib_files' = list_roll_files(library')
    /\ sel' = kept_sel(lib_files', f)
    /\ event' = NoEvent
    /\ UNCHANGED <<roll_df, reset_pending, mobile_frame_idx, lenses, frames,
                   iso_set, mobile_mode, uploaded, now, nEdits>>
    /\ UNCHANGED page_inputs

\* all(col in loaded_df.columns for col in editor_cols) (line 131)
has_editor_cols(df) == \A col \in Range(editor_cols) : col \in Range(df.columns)

\* LoadIntoEditor with the editor emptied when the file does not match.
LoadIntoEditorClears ==
    /\ sel # NoSel
    /\ Sidebar
    /\ IF sel' = NoSel
       THEN /\ roll_df' = roll_df
            /\ event' = Ev("load_into_editor", "not_rendered", {})
       ELSE LET loaded_df == load_roll_csv(library', sel') IN
            IF has_editor_cols(loaded_df)
            THEN /\ roll_df' = select_cols(loaded_df, editor_cols)
                 /\ event' = Ev("load_into_editor", "loaded", {})
            ELSE /\ roll_df' = None
                 /\ event' = Ev("load_into_editor", "schema_mismatch", {})
    /\ UNCHANGED <<reset_pending, mobile_frame_idx, lenses, frames, iso_set,
                   mobile_mode, nEdits>>
    /\ UNCHANGED page_inputs

\* "Load into editor" (lines 129-135).  The button exists only while a file
\* is selected; the click is lost when the selectbox comes up reset.
LoadIntoEditor ==
    /\ sel # NoSel
    /\ Sidebar
    /\ IF sel' = NoSel
       THEN /\ roll_df' = roll_df
            /\ event' = Ev("load_into_editor", "not_rendered", {})
       ELSE LET loaded_df == load_roll_csv(library', sel') IN
            IF has_editor_cols(loaded_df)
            THEN /\ roll_df' = select_cols(loaded_df, editor_cols)
                 /\ event' = Ev("load_into_editor", "loaded", {})
            ELSE /\ roll_df' = roll_df
                 /\ event' = Ev("load_into_editor", "schema_mismatch", {})
    /\ UNCHANGED <<reset_pending, mobile_frame_idx, lenses, frames, iso_set,
                   mobile_mode, nEdits>>
    /\ UNCHANGED page_inputs

----------------------------------------------------------------------------
(* Lens Library (lines 140-157)                                             *)

LensRow(name, focal, max_ap) ==
    [c \in {"Brand/Name", "Focal Length (mm)", "Max Aperture"} |->
        CASE c = "Brand/Name" -> name
          [] c = "Focal Length (mm)" -> focal
          [] c = "Max Aperture" -> max_ap]

\* "Add Lens" (lines 150-155): appended, duplicates and "" included.
AddLens(lens_name) ==
    /\ lens_name \notin {lenses[i]["Brand/Name"] : i \in DOMAIN lenses}
    /\ lenses' = Append(lenses, LensRow(lens_name, 50, F_STOPS[2]))
    /\ Sidebar
    /\ event' = Ev("add_lens", "lens_added", {})
    /\ UNCHANGED <<roll_df, reset_pending, mobile_frame_idx, frames, iso_set,
                   mobile_mode, nEdits>>
    /\ UNCHANGED page_inputs

\* [""] + st.session_state.lenses["Brand/Name"].tolist() (line 169)
lens_options == {""} \cup {lenses[i]["Brand/Name"] : i \in DOMAIN lenses}

----------------------------------------------------------------------------
(* Roll Sheet builder (lines 166-211)                                       *)

\* NewRollDf with the frames numbered by range(frames) instead of
\* range(1, frames + 1).
NewRollDfFromZero(n, default_iso) ==
    [columns |-> editor_cols,
     rows |-> [i \in 1..n |->
        [c \in Range(editor_cols) |->
            CASE c = "Frame #" -> i - 1
              [] c = "ISO" -> default_iso
              [] c = "Shutter" -> default_shutter
              [] c = "Aperture" -> default_aperture
              [] c = "Lens" -> ""
              [] c = "Notes" -> ""]]]

\* The DataFrame of "Build roll sheet" (lines 174-181)
NewRollDf(n, default_iso) ==
    [columns |-> editor_cols,
     rows |-> [i \in 1..n |->
        [c \in Range(editor_cols) |->
            CASE c = "Frame #" -> i
              [] c = "ISO" -> default_iso
              [] c = "Shutter" -> default_shutter
              [] c = "Aperture" -> default_aperture
              [] c = "Lens" -> ""
              [] c = "Notes" -> ""]]]

\* BuildRollSheet closing a pending reset dialogue.
BuildRollSheetClosesDialogue ==
    /\ roll_df' = NewRollDf(frames, iso_set)
    /\ reset_pending' = FALSE
    /\ Sidebar
    /\ event' = Ev("build", "", {})
    /\ UNCHANGED <<mobile_frame_idx, lenses, frames, iso_set, mobile_mode, nEdits>>
    /\ UNCHANGED page_inputs

\* "Build roll sheet" (lines 173-181): no confirmation is asked.
BuildRollSheet ==
    /\ roll_df' = NewRollDf(frames, iso_set)
    /\ Sidebar
    /\ event' = Ev("build", "", {})
    /\ UNCHANGED <<reset_pending, mobile_frame_idx, lenses, frames, iso_set,
                   mobile_mode, nEdits>>
    /\ UNCHANGED page_inputs

\* "Reset roll sheet..." (lines 183-184)
RequestReset ==
    /\ reset_pending' = TRUE
    /\ Sidebar
    /\ event' = Ev("request_reset", "", {})
    /\ UNCHANGED <<roll_df, mobile_frame_idx, lenses, frames, iso_set,
                   mobile_mode, nEdits>>
    /\ UNCHANGED page_inputs

\* ResetRollDf filled with the film's box speed instead of the ISO set.
ResetRollDfBoxSpeed(n, default_iso) ==
    [columns |-> editor_cols,
     rows |-> [i \in 1..n |->
        [c \in Range(editor_cols) |->
            CASE c = "Frame #" -> i
              [] c = "ISO" -> film_iso
              [] c = "Shutter" -> default_shutter
              [] c = "Aperture" -> default_aperture
              [] c = "Lens" -> ""
              [] c = "Notes" -> ""]]]

\* The DataFrame of "Confirm reset now" (lines 192-199)
ResetRollDf(n, default_iso) ==
    [columns |-> editor_cols,
     rows |-> [i \in 1..n |->
        [c \in Range(editor_cols) |->
            CASE c = "Frame #" -> i
              [] c = "ISO" -> default_iso
              [] c = "Shutter" -> default_shutter
              [] c = "Aperture" -> default_aperture
              [] c = "Lens" -> ""
              [] c = "Notes" -> ""]]]

\* "Confirm reset now" (lines 187-201): rendered only while reset_pending.
ConfirmReset ==
    /\ reset_pending
    /\ roll_df' = ResetRollDf(frames, iso_set)
    /\ reset_pending' = FALSE
    /\ Sidebar
    /\ event' = Ev("confirm_reset", "reset", {})
    /\ UNCHANGED <<mobile_frame_idx, lenses, frames, iso_set, mobile_mode, nEdits>>
    /\ UNCHANGED page_inputs

\* "Cancel" (lines 202-205): rendered only while reset_pending.
CancelReset ==
    /\ reset_pending
    /\ reset_pending' = FALSE
    /\ Sidebar
    /\ event' = Ev("cancel_reset", "canceled", {})
    /\ UNCHANGED <<roll_df, mobile_frame_idx, lenses, frames, iso_set,
                   mobile_mode, nEdits>>
    /\ UNCHANGED page_inputs

\* "Save to library" (lines 207-211): the file list of line 122 was taken
\* before the save, so the new file is an option only from the next re-run.
\* The status message names the file written; the event also tells whether
\* a file of that name was there before.
SaveToLibrary ==
    /\ roll_df # None
    /\ lib_files' = list_roll_files(import_block(library, uploaded, now))
    /\ sel' = kept_sel(lib_files', sel)
    /\ library' = save_roll_csv(import_block(library, uploaded, now), roll_df,
                                iso_set, frames, now)
    /\ mtime' = touch(mtime, import_written(uploaded, now)
                                \cup {roll_fname(now, frames)}, now)
    /\ fits(library')
    /\ event' = Ev("save_to_library", roll_fname(now, frames),
                   {roll_fname(now, frames)} \cap DOMAIN library)
    /\ UNCHANGED <<roll_df, reset_pending, mobile_frame_idx, lenses, frames,
                   iso_set, mobile_mode, uploaded, now, nEdits>>
    /\ UNCHANGED page_inputs

----------------------------------------------------------------------------
(* Editors (lines 227-287)                                                  *)

\* total = len(st.session_state.roll_df) (line 234)
total == Len(roll_df.rows)

\* The frames the user visits in the one-frame editor: the first two and the
\* last one of the roll.
Visited == {1, 2, total}

Max(a, b) == IF a >= b THEN a ELSE b
Min(a, b) == IF a <= b THEN a ELSE b

\* st.number_input(min_value=1, max_value=total, value=idx) (line 240) raises
\* when value lies outside min_value..max_value; the script stops there and
\* nothing below it is rendered.
number_input_ok(idx) == 1 <= idx /\ idx <= total

\* The one-frame editor was rendered down to its buttons by the last re-run.
MobileEditorShown ==
    mobile_mode /\ roll_df # None /\ number_input_ok(mobile_frame_idx)

\* "Prev" (lines 237-238), rendered above the number input.
PrevFrame ==
    /\ mobile_mode /\ roll_df # None
    /\ Max(1, mobile_frame_idx - 1) \in Visited
    /\ mobile_frame_idx' = Max(1, mobile_frame_idx - 1)
    /\ Sidebar
    /\ event' = Ev("prev", "", {})
    /\ UNCHANGED <<roll_df, reset_pending, lenses, frames, iso_set, mobile_mode,
                   nEdits>>
    /\ UNCHANGED page_inputs

\* The user types a frame number into "Frame #" (lines 240-241).
TypeFrameNum(frame_num) ==
    /\ MobileEditorShown
    /\ frame_num \in 1..total
    /\ frame_num \in Visited
    /\ frame_num # mobile_frame_idx
    /\ mobile_frame_idx' = frame_num
    /\ Sidebar
    /\ event' = NoEvent
    /\ UNCHANGED <<roll_df, reset_pending, lenses, frames, iso_set, mobile_mode,
                   nEdits>>
    /\ UNCHANGED page_inputs

\* "Next" (lines 243-244)
NextFrame ==
    /\ MobileEditorShown
    /\ Min(total, mobile_frame_idx + 1) \in Visited
    /\ mobile_frame_idx' = Min(total, mobile_frame_idx + 1)
    /\ Sidebar
    /\ event' = Ev("next", "", {})
    /\ UNCHANGED <<roll_df, reset_pending, lenses, frames, iso_set, mobile_mode,
                   nEdits>>
    /\ UNCHANGED page_inputs

edit_cols == SubSeq(editor_cols, 2, Len(editor_cols))

\* What the five widgets of the one-frame editor show for a row before the
\* user touches them (lines 251-256): a value that is no option of its
\* selectbox is replaced by the fallback option, Notes is cast to str.
shown(row) ==
    [c \in Range(edit_cols) |->
        CASE c = "ISO" ->
                IF row["ISO"] \in Range(ISO_CHOICES) THEN row["ISO"] ELSE 400
          [] c = "Shutter" ->
                IF row["Shutter"] \in Range(SHUTTER_CHOICES)
                THEN row["Shutter"] ELSE "1/125s"
          [] c = "Aperture" ->
                IF row["Aperture"] \in Range(APERTURE_CHOICES)
                THEN row["Aperture"] ELSE "f/8"
          [] c = "Lens" -> IF row["Lens"] \in lens_options THEN row["Lens"] ELSE ""
          [] c = "Notes" -> IF row["Notes"] = NaN THEN "nan" ELSE row["Notes"]]

\* The widget values the user can have on screen when clicking "Save frame":
\* what is shown, with at most one widget set to another option.
WidgetInputs(row) ==
    {shown(row)}
        \cup {[shown(row) EXCEPT !["ISO"] = v] : v \in IsoInputs}
        \cup {[shown(row) EXCEPT !["Shutter"] = v] : v \in ShutterInputs}
        \cup {[shown(row) EXCEPT !["Aperture"] = v] : v \in ApertureInputs}
        \cup {[shown(row) EXCEPT !["Lens"] = v] : v \in lens_options}
        \cup {[shown(row) EXCEPT !["Notes"] = v] : v \in NoteInputs}

\* roll_df.iloc[idx] = [frame_num, ISO, Shutter, Aperture, Lens, notes] (line 261)
set_row(df, idx, frame_num, w) ==
    [df EXCEPT !.rows[idx] =
        [c \in Range(df.columns) |-> IF c = "Frame #" THEN frame_num ELSE w[c]]]

\* "Save frame" (lines 260-262) with the widgets holding w.
SaveFrame(w) ==
    /\ MobileEditorShown
    /\ nEdits < MaxEdits
    /\ nEdits' = nEdits + 1
    /\ roll_df' = set_row(roll_df, mobile_frame_idx, mobile_frame_idx, w)
    /\ Sidebar
    /\ event' = Ev("save_frame", "frame_updated",
                   {c \in Range(edit_cols) :
                        w[c] # shown(roll_df.rows[mobile_frame_idx])[c]})
    /\ UNCHANGED <<reset_pending, mobile_frame_idx, lenses, frames, iso_set,
                   mobile_mode>>
    /\ UNCHANGED page_inputs

\* copy_prev with the whole row copied (iloc[idx] instead of iloc[idx, 1:]).
copy_prev_whole_row(df, idx) == [df EXCEPT !.rows[idx] = df.rows[idx - 1]]

\* roll_df.iloc[idx, 1:] = roll_df.iloc[idx-1, 1:] (line 266)
copy_prev(df, idx) ==
    [df EXCEPT !.rows[idx] =
        [c \in Range(df.columns) |->
            IF c = df.columns[1] THEN df.rows[idx][c] ELSE df.rows[idx - 1][c]]]

\* "Duplicate last frame" (lines 264-269)
DuplicateLastFrame ==
    /\ MobileEditorShown
    /\ IF mobile_frame_idx - 1 > 0
       THEN /\ roll_df' = copy_prev(roll_df, mobile_frame_idx)
            /\ event' = Ev("duplicate", "duplicated", {})
       ELSE /\ roll_df' = roll_df
            /\ event' = Ev("duplicate", "no_previous_frame", {})
    /\ Sidebar
    /\ UNCHANGED <<reset_pending, mobile_frame_idx, lenses, frames, iso_set,
                   mobile_mode, nEdits>>
    /\ UNCHANGED page_inputs

\* An edit of one cell in the grid (lines 273-287): st.data_editor works on
\* a copy and its return value is dropped, so session state is untouched.
GridEdit(c) ==
    /\ ~mobile_mode /\ roll_df # None
    /\ Sidebar
    /\ event' = Ev("grid_edit", "", {c})
    /\ UNCHANGED <<roll_df, reset_pending, mobile_frame_idx, lenses, frames,
                   iso_set, mobile_mode, nEdits>>
    /\ UNCHANGED page_inputs

----------------------------------------------------------------------------
(* Library Browser (lines 294-323)                                          *)

UPPERCASE == "ABCDEFGHIJKLMNOPQRSTUVWXYZ"
LOWERCASE == "abcdefghijklmnopqrstuvwxyz"

\* The lower-case letter of each upper-case letter.
lower_case_of ==
    [c \in {char(UPPERCASE, i) : i \in 1..Len(UPPERCASE)} |->
        char(LOWERCASE, CHOOSE i \in 1..Len(UPPERCASE) : char(UPPERCASE, i) = c)]

RECURSIVE lower(_)
\* str.lower()
lower(s) ==
    IF s = "" THEN ""
    ELSE (IF Head(s) \in DOMAIN lower_case_of
          THEN lower_case_of[Head(s)] ELSE Head(s)) \o lower(Tail(s))

\* sub in s
contains(s, sub) ==
    \E i \in 0..(Len(s) - Len(sub)) : SubSeq(s, i + 1, i + Len(sub)) = sub

\* filtered_by with the file name compared as it is spelled.
filtered_by_as_spelled(file_list, query, date) ==
    LET by_query == SelectSeq(file_list, LAMBDA f : contains(f, lower(query)))
    IN IF date # ""
       THEN SelectSeq(by_query, LAMBDA f : contains(f, "__" \o date \o "__"))
       ELSE by_query

\* filtered after lines 306-308
filtered_by(file_list, query, date) ==
    LET by_query == SelectSeq(file_list,
                              LAMBDA f : contains(lower(f), lower(query)))
    IN IF date # ""
       THEN SelectSeq(by_query, LAMBDA f : contains(f, "__" \o date \o "__"))
       ELSE by_query

\* sorted(filtered, reverse=True)
sorted_reverse(file_list) ==
    LET up == sorted(Range(file_list))
    IN [i \in 1..Len(up) |-> up[Len(up) + 1 - i]]

\* filtered after lines 309-310
ordered(file_list, newest) ==
    IF newest THEN sorted_reverse(file_list) ELSE file_list

\* files of line 294: the directory as this re-run left it
files == list_roll_files(library)

\* The list of rolls the browser shows (lines 306-310).
filtered == ordered(filtered_by(files, q, filter_date), sort_new_first)

\* The user types into "Search" (line 300); the browser's widgets exist
\* only while the library has files (line 295).
SetQuery(v) ==
    /\ files # <<>>
    /\ v # q
    /\ q' = v
    /\ Sidebar
    /\ event' = NoEvent
    /\ UNCHANGED <<roll_df, reset_pending, mobile_frame_idx, lenses, frames,
                   iso_set, mobile_mode, nEdits>>
    /\ UNCHANGED <<project_name, camera, film_type, roll_date, sort_new_first,
                   filter_date>>

\* The user flips "Newest first" (line 302).
ToggleNewestFirst ==
    /\ files # <<>>
    /\ sort_new_first' = ~sort_new_first
    /\ Sidebar
    /\ event' = NoEvent
    /\ UNCHANGED <<roll_df, reset_pending, mobile_frame_idx, lenses, frames,
                   iso_set, mobile_mode, nEdits>>
    /\ UNCHANGED <<project_name, camera, film_type, roll_date, q, filter_date>>

\* The user types into "Filter by date" (line 304).
SetFilterDate(v) ==
    /\ files # <<>>
    /\ v # filter_date
    /\ filter_date' = v
    /\ Sidebar
    /\ event' = NoEvent
    /\ UNCHANGED <<roll_df, reset_pending, mobile_frame_idx, lenses, frames,
                   iso_set, mobile_mode, nEdits>>
    /\ UNCHANGED <<project_name, camera, film_type, roll_date, q,
                   sort_new_first>>

----------------------------------------------------------------------------
(* The environment                                                          *)

\* A second passes between two interactions.
Tick ==
    /\ now < MaxClock
    /\ now' = now + 1
    /\ UNCHANGED <<roll_df, reset_pending, mobile_frame_idx, lenses, frames,
                   iso_set, mobile_mode, uploaded, sel, lib_files, library,
                   nEdits, event, page_inputs, mtime>>

----------------------------------------------------------------------------
(* Specifications                                                           *)

SaveFrameAny ==
    /\ MobileEditorShown
    /\ \E w \in WidgetInputs(roll_df.rows[mobile_frame_idx]) : SaveFrame(w)

\* Every interaction of the session.
Next ==
    \/ \E n \in Range(FRAME_OPTIONS) : SetFrames(n)
    \/ \E i \in IsoInputs : SetIsoSet(i)
    \/ ToggleMobile
    \/ \E u \in UploadInputs : Upload(u)
    \/ ClearUpload
    \/ \E f \in Range(lib_files) : SelectFile(f)
    \/ LoadIntoEditor
    \/ \E name \in LensInputs : AddLens(name)
    \/ BuildRollSheet
    \/ RequestReset
    \/ ConfirmReset
    \/ CancelReset
    \/ SaveToLibrary
    \/ PrevFrame
    \/ \E n \in Visited : TypeFrameNum(n)
    \/ NextFrame
    \/ SaveFrameAny
    \/ DuplicateLastFrame
    \/ \E c \in GridInputs : GridEdit(c)
    \/ \E v \in ProjectInputs : SetProjectName(v)
    \/ \E v \in CameraInputs : SetCamera(v)
    \/ \E v \in FilmInputs : SetFilmType(v)
    \/ \E d \in DateInputs : SetRollDate(d)
    \/ \E v \in QueryInputs : SetQuery(v)
    \/ ToggleNewestFirst
    \/ \E v \in FilterDateInputs : SetFilterDate(v)
    \/ Tick

Spec == Init /\ [][Next]_vars

\* The sessions below are Spec with the user keeping to a part of the page.

\* The roll sheet builder: Project Setup, build, the reset dialogue, and edits
\* of the frame the one-frame editor opens with.
NextSheet ==
    \/ \E n \in Range(FRAME_OPTIONS) : SetFrames(n)
    \/ \E i \in IsoInputs : SetIsoSet(i)
    \/ ToggleMobile
    \/ BuildRollSheet
    \/ RequestReset
    \/ ConfirmReset
    \/ CancelReset
    \/ SaveFrameAny

SpecSheet == Init /\ [][NextSheet]_vars

\* The frame editors on a roll built from the initial Project Setup.
NextFrames ==
    \/ ToggleMobile
    \/ \E name \in LensInputs : AddLens(name)
    \/ BuildRollSheet
    \/ PrevFrame
    \/ \E n \in Visited : TypeFrameNum(n)
    \/ NextFrame
    \/ SaveFrameAny
    \/ DuplicateLastFrame
    \/ \E c \in GridInputs : GridEdit(c)

SpecFrames == Init /\ [][NextFrames]_vars

\* The roll library: import, save, select and load, around a roll built from
\* the initial Project Setup.
NextLibrary ==
    \/ \E u \in UploadInputs : Upload(u)
    \/ \E f \in Range(lib_files) : SelectFile(f)
    \/ LoadIntoEditor
    \/ \E name \in LensInputs : AddLens(name)
    \/ BuildRollSheet
    \/ RequestReset
    \/ CancelReset
    \/ SaveToLibrary
    \/ Tick

SpecLibrary == Init /\ [][NextLibrary]_vars

\* Editing a roll that came out of the library, within one clock second.
NextLoaded ==
    \/ \E u \in UploadInputs : Upload(u)
    \/ \E f \in Range(lib_files) : SelectFile(f)
    \/ LoadIntoEditor
    \/ BuildRollSheet
    \/ SaveToLibrary
    \/ ToggleMobile
    \/ SaveFrameAny

SpecLoaded == Init /\ [][NextLoaded]_vars

\* Moving through the frames of rolls of several lengths.
NextNav ==
    \/ \E n \in Range(FRAME_OPTIONS) : SetFrames(n)
    \/ ToggleMobile
    \/ BuildRollSheet
    \/ RequestReset
    \/ ConfirmReset
    \/ PrevFrame
    \/ \E n \in Visited : TypeFrameNum(n)
    \/ NextFrame

SpecNav == Init /\ [][NextNav]_vars

\* The reset dialogue among the other operations, within one clock second.
NextReset ==
    \/ \E u \in UploadInputs : Upload(u)
    \/ \E f \in Range(lib_files) : SelectFile(f)
    \/ LoadIntoEditor
    \/ BuildRollSheet
    \/ ToggleMobile
    \/ SaveFrameAny
    \/ DuplicateLastFrame
    \/ SaveToLibrary
    \/ RequestReset
    \/ ConfirmReset
    \/ CancelReset

SpecReset == Init /\ [][NextReset]_vars

\* Searching a library of saved and imported rolls.
NextBrowser ==
    \/ \E v \in ProjectInputs : SetProjectName(v)
    \/ \E u \in UploadInputs : Upload(u)
    \/ BuildRollSheet
    \/ SaveToLibrary
    \/ \E v \in QueryInputs : SetQuery(v)
    \/ Tick

SpecBrowser == Init /\ [][NextBrowser]_vars

\* The order of the browser's list as files are written second after second.
NextSort ==
    \/ \E v \in ProjectInputs : SetProjectName(v)
    \/ \E u \in UploadInputs : Upload(u)
    \/ BuildRollSheet
    \/ SaveToLibrary
    \/ ToggleNewestFirst
    \/ Tick

SpecSort == Init /\ [][NextSort]_vars

\* Saving under several project, camera and film names, within one second.
NextNames ==
    \/ \E v \in ProjectInputs : SetProjectName(v)
    \/ \E v \in CameraInputs : SetCamera(v)
    \/ \E v \in FilmInputs : SetFilmType(v)
    \/ BuildRollSheet
    \/ SaveToLibrary

SpecNames == Init /\ [][NextNames]_vars

\* Filtering by date a library of rolls shot on several days.
NextDates ==
    \/ \E v \in ProjectInputs : SetProjectName(v)
    \/ \E d \in DateInputs : SetRollDate(d)
    \/ \E u \in UploadInputs : Upload(u)
    \/ BuildRollSheet
    \/ SaveToLibrary
    \/ \E v \in FilterDateInputs : SetFilterDate(v)

SpecDates == Init /\ [][NextDates]_vars

\* Saving again and again, in the same second or the next.
NextSaves ==
    \/ \E v \in CameraInputs : SetCamera(v)
    \/ \E i \in IsoInputs : SetIsoSet(i)
    \/ BuildRollSheet
    \/ SaveToLibrary
    \/ Tick

SpecSaves == Init /\ [][NextSaves]_vars

----------------------------------------------------------------------------
(* Properties                                                               *)

\* A sheet of n frames numbered 1..n in order, every frame at the defaults
\* for the ISO iso.
IsFreshSheet(df, n, iso) ==
    /\ df.columns = <<"Frame #", "ISO", "Shutter", "Aperture", "Lens", "Notes">>
    /\ Len(df.rows) = n
    /\ \A i \in 1..n :
        /\ df.rows[i]["Frame #"] = i
        /\ df.rows[i]["ISO"] = iso
        /\ df.rows[i]["Shutter"] = "1/125s"
        /\ df.rows[i]["Aperture"] = "f/8"
        /\ df.rows[i]["Lens"] = ""
        /\ df.rows[i]["Notes"] = ""

\* C1: after "Build roll sheet", whatever roll existed before, the roll has
\* exactly frame_count frames numbered 1..frame_count in order, each with
\* ISO = iso_set, shutter 1/125s, aperture f/8, empty lens and notes; the
\* frame count is one of 12, 24, 27, 36 and the same sheet is built for
\* every ISO of the catalog.
C1_BuildGivesFreshSheet ==
    event.widget = "build" =>
        /\ frames \in {12, 24, 27, 36}
        /\ IsFreshSheet(roll_df, frames, iso_set)
        /\ \A iso \in Range(ISO_CHOICES) :
              IsFreshSheet(NewRollDf(frames, iso), frames, iso)

\* C1 witness: a build that replaced a roll the user had edited, with a
\* frame count and an ISO other than the initial ones.
C1_Witness ==
    /\ event.widget = "build"
    /\ nEdits > 0
    /\ frames = 12
    /\ iso_set = 800
    /\ Len(roll_df.rows) = 12

\* C2: whenever a roll exists, its number of frames equals the frame count
\* of the Project Setup, the one a save encodes in the file name.
C2_FrameCountMatchesRoll ==
    roll_df # None => Len(roll_df.rows) = frames

\* C3: whenever a roll exists, the frame at position i has frame number i.
C3_FrameNumberIsPosition ==
    roll_df # None =>
        \A i \in DOMAIN roll_df.rows : roll_df.rows[i]["Frame #"] = i

KeepsRollLensesLibrary ==
    /\ roll_df' = roll_df
    /\ lenses' = lenses
    /\ library' = library

\* C4: a reset request changes neither the roll, the lens catalog nor the
\* library, and a cancel right after it returns to Idle, again with all
\* three as they were.
C4_RequestThenCancelKeepsAll ==
    [][/\ event'.widget = "request_reset" =>
            reset_pending' /\ KeepsRollLensesLibrary
       /\ (event.widget = "request_reset" /\ event'.widget = "cancel_reset") =>
            ~reset_pending' /\ KeepsRollLensesLibrary]_vars

\* C5: a confirm is taken in ResetPending only, leaves the session Idle and
\* the roll a fresh sheet of frame_count frames for the current ISO set,
\* every earlier edit gone.
C5_ConfirmResetRebuilds ==
    [][event'.widget = "confirm_reset" =>
          /\ reset_pending
          /\ ~reset_pending'
          /\ frames' = frames /\ iso_set' = iso_set
          /\ IsFreshSheet(roll_df', frames, iso_set)]_vars

\* C5 witness: a confirmed reset, for a setup other than the initial one,
\* in a session in which a frame had been edited.
C5_Witness ==
    /\ event.widget = "confirm_reset"
    /\ nEdits > 0
    /\ frames = 24
    /\ iso_set = 800
    /\ Len(roll_df.rows) = 24

\* The roll carries per-frame edits: it is no fresh sheet for any ISO.
HasEdits(df) ==
    /\ df # None
    /\ \A iso \in Range(ISO_CHOICES) : ~IsFreshSheet(df, Len(df.rows), iso)

\* C6: in the grid variant a roll with per-frame edits is replaced by a
\* freshly built sheet only by a confirm taken in ResetPending.
C6_RebuildOnlyAfterConfirm ==
    [][(~mobile_mode /\ ~mobile_mode' /\ HasEdits(roll_df)
            /\ IsFreshSheet(roll_df', frames', iso_set')) =>
          (reset_pending /\ event'.widget = "confirm_reset")]_vars

\* C7: "Duplicate last frame" on frame 1 reports that there is no previous
\* frame and leaves the roll as it is; on frame n > 1 it gives frame n the
\* ISO, shutter, aperture, lens and notes of frame n-1, keeps its frame
\* number n, and leaves every other frame as it is.
C7_DuplicateCopiesPrevious ==
    [][event'.widget = "duplicate" =>
          LET n == mobile_frame_idx IN
          IF n = 1
          THEN event'.outcome = "no_previous_frame" /\ roll_df' = roll_df
          ELSE /\ event'.outcome = "duplicated"
               /\ roll_df'.columns = roll_df.columns
               /\ Len(roll_df'.rows) = Len(roll_df.rows)
               /\ \A c \in {"ISO", "Shutter", "Aperture", "Lens", "Notes"} :
                     roll_df'.rows[n][c] = roll_df.rows[n - 1][c]
               /\ roll_df'.rows[n]["Frame #"] = n
               /\ \A i \in DOMAIN roll_df.rows :
                     i # n => roll_df'.rows[i] = roll_df.rows[i]]_vars

\* C7 witness: frame 2 was given the edited notes of frame 1 by a duplicate.
C7_Witness ==
    /\ event = Ev("duplicate", "duplicated", {})
    /\ mobile_frame_idx = 2
    /\ roll_df.rows[1]["Notes"] = "backlit, +1 stop"
    /\ roll_df.rows[2]["Notes"] = "backlit, +1 stop"
    /\ roll_df.rows[2]["Frame #"] = 2

\* C8: right after a save, loading the file just written into the editor
\* would give a roll equal, frame by frame and column by column, to the roll
\* that was saved.
C8_SaveLoadRoundTrip ==
    event.widget = "save_to_library" =>
        LET loaded_df == load_roll_csv(library, event.outcome) IN
        /\ Len(loaded_df.rows) = Len(roll_df.rows)
        /\ \A i \in DOMAIN roll_df.rows :
             \A c \in {"Frame #", "ISO", "Shutter", "Aperture", "Lens", "Notes"} :
                loaded_df.rows[i][c] = roll_df.rows[i][c]

\* The file lacks one of the six editor columns.
LacksEditorColumn(file) ==
    \E c \in {"Frame #", "ISO", "Shutter", "Aperture", "Lens", "Notes"} :
        c \notin Range(file.columns)

\* C9: a load of a file that lacks an editor column ends in the
\* schema-mismatch warning, and a load that ends in that warning was of such
\* a file and left the roll, the reset-pending flag and the lens catalog as
\* they were.
C9_SchemaMismatchKeepsState ==
    [][/\ (event'.widget = "load_into_editor" /\ sel' # NoSel
               /\ LacksEditorColumn(library'[sel'])) =>
            event'.outcome = "schema_mismatch"
       /\ event'.outcome = "schema_mismatch" =>
            /\ LacksEditorColumn(library'[sel'])
            /\ roll_df' = roll_df
            /\ reset_pending' = reset_pending
            /\ lenses' = lenses]_vars

\* C9 witness: the warning came up over an existing roll, with a reset
\* pending and a lens in the catalog.
C9_Witness ==
    /\ event = Ev("load_into_editor", "schema_mismatch", {})
    /\ roll_df # None
    /\ reset_pending
    /\ lenses # <<>>

\* C10: a "Save frame" in which the user changed one field changes that
\* field of that frame and nothing else in the roll.
C10_EditChangesOneField ==
    [][(event'.widget = "save_frame" /\ Cardinality(event'.edited) = 1) =>
          /\ Len(roll_df'.rows) = Len(roll_df.rows)
          /\ \A i \in DOMAIN roll_df.rows :
               \A c \in Range(editor_cols) :
                  IF i = mobile_frame_idx /\ c \in event'.edited
                  THEN roll_df'.rows[i][c] # roll_df.rows[i][c]
                  ELSE roll_df'.rows[i][c] = roll_df.rows[i][c]]_vars

\* C11: whenever a roll exists, every frame's shutter, aperture and ISO is a
\* member of its catalog.
C11_FieldsInCatalogs ==
    roll_df # None =>
        \A i \in DOMAIN roll_df.rows :
            /\ roll_df.rows[i]["Shutter"] \in Range(SHUTTER_CHOICES)
            /\ roll_df.rows[i]["Aperture"] \in Range(APERTURE_CHOICES)
            /\ roll_df.rows[i]["ISO"] \in Range(ISO_CHOICES)

\* C12: whenever a roll exists, every frame's lens is the empty string or a
\* name of the session's lens catalog.
C12_LensInCatalog ==
    roll_df # None =>
        \A i \in DOMAIN roll_df.rows :
            \/ roll_df.rows[i]["Lens"] = ""
            \/ \E k \in DOMAIN lenses :
                  lenses[k]["Brand/Name"] = roll_df.rows[i]["Lens"]

\* C16: the session starts Idle; it turns ResetPending by a reset request
\* only and back to Idle by a confirm or a cancel only, whatever else is
\* done meanwhile; a request leaves it ResetPending and the roll as it is;
\* confirm and cancel are taken in ResetPending only and lead to Idle.
C16_ResetStateMachine ==
    /\ ~reset_pending
    /\ [][/\ (~reset_pending /\ reset_pending') =>
                event'.widget = "request_reset"
          /\ (reset_pending /\ ~reset_pending') =>
                event'.widget \in {"confirm_reset", "cancel_reset"}
          /\ event'.widget = "request_reset" =>
                reset_pending' /\ roll_df' = roll_df
          /\ event'.widget \in {"confirm_reset", "cancel_reset"} =>
                reset_pending /\ ~reset_pending']_vars

\* C16 witness: an imported roll was loaded over an edited roll while the
\* reset dialogue stayed open.
C16_Witness ==
    /\ reset_pending
    /\ nEdits > 0
    /\ event = Ev("load_into_editor", "loaded", {})

\* C19: whenever the one-frame editor is on with a roll, the current frame
\* index lies in 1..N, N the number of frames of the roll.
C19_FrameIndexInRange ==
    (mobile_mode /\ roll_df # None) =>
        (1 <= mobile_frame_idx /\ mobile_frame_idx <= Len(roll_df.rows))

\* C20: the library never holds more than one copy of the file in the
\* uploader: one import adds one file and later interactions add none.
C20_OneFilePerImport ==
    uploaded # NoUpload =>
        Cardinality({f \in DOMAIN library :
                        /\ library[f] = uploaded.bytes
                        /\ \E t \in 0..MaxClock :
                              f = strftime_now(t) \o "__imported_" \o uploaded.name})
            <= 1

\* Each letter in its two cases.
LetterPairs ==
    {{SubSeq("ABCDEFGHIJKLMNOPQRSTUVWXYZ", i, i),
      SubSeq("abcdefghijklmnopqrstuvwxyz", i, i)} : i \in 1..26}

\* Two characters that are equal up to the case of a letter.
SameLetter(a, b) == a = b \/ {a, b} \in LetterPairs

\* The name has the query as a substring, the case of letters ignored.
HasIgnoringCase(name, query) ==
    \E i \in 0..(Len(name) - Len(query)) :
        \A k \in 1..Len(query) :
            SameLetter(SubSeq(name, i + k, i + k), SubSeq(query, k, k))

\* The position of a name in a list without repetitions.
PositionIn(list, name) == CHOOSE k \in DOMAIN list : list[k] = name

\* kept holds exactly the names in wanted, in the order list has them.
KeepsInOrder(list, kept, wanted) ==
    /\ Range(kept) = wanted
    /\ \A i, j \in DOMAIN kept :
          i < j => PositionIn(list, kept[i]) < PositionIn(list, kept[j])

TimestampOf(name) == SubSeq(name, 1, 15)

\* C14: a file written at a later second has a timestamp component that is
\* not smaller, and in the newest-first order no file written at a later
\* second comes after a file written at an earlier second.
C14_NewestFirstIsReverseChronological ==
    /\ \A f, g \in DOMAIN library :
          mtime[f] <= mtime[g] => ~str_lt(TimestampOf(g), TimestampOf(f))
    /\ LET newest_first == ordered(files, TRUE)
       IN \A i, j \in DOMAIN newest_first :
             i < j => mtime[newest_first[i]] >= mtime[newest_first[j]]
    /\ sort_new_first =>
          \A i, j \in DOMAIN filtered :
             i < j => mtime[filtered[i]] >= mtime[filtered[j]]

\* C14 witness: the browser lists, newest first, two rolls saved in two
\* different seconds.
C14_Witness ==
    /\ sort_new_first
    /\ Len(filtered) = 2
    /\ mtime[filtered[1]] > mtime[filtered[2]]
    /\ event.widget = "save_to_library"

DateShotOf(file) ==
    IF "Date Shot" \in Range(file.columns) /\ file.rows # <<>>
    THEN file.rows[1]["Date Shot"]
    ELSE ""

\* C17: with a date filter typed in, the files kept are exactly the saved
\* rolls that were shot on that date and match the query.
C17_DateFilterKeepsRollsOfThatDate ==
    filter_date # "" =>
        Range(filtered_by(files, q, filter_date))
            = {f \in Range(files) :
                  /\ DateShotOf(library[f]) = filter_date
                  /\ HasIgnoringCase(f, q)}

RECURSIVE SplitOn(_, _)
\* The fields of a text between the occurrences of a separator, taken from
\* left to right.
SplitOn(text, sep) ==
    IF \E i \in 0..(Len(text) - Len(sep)) : SubSeq(text, i + 1, i + Len(sep)) = sep
    THEN LET first == CHOOSE i \in 0..(Len(text) - Len(sep)) :
                         /\ SubSeq(text, i + 1, i + Len(sep)) = sep
                         /\ \A k \in 0..(i - 1) :
                               SubSeq(text, k + 1, k + Len(sep)) # sep
         IN <<SubSeq(text, 1, first)>>
                \o SplitOn(SubSeq(text, first + Len(sep) + 1, Len(text)), sep)
    ELSE <<text>>

\* C18: the name of a saved file splits on "__" into exactly six fields:
\* timestamp, date shot as YYYY-MM-DD, project, camera, film with their
\* spaces made underscores, and "{frame_count}f.csv".
C18_FileNameHasSixFields ==
    event.widget = "save_to_library" =>
        LET fields == SplitOn(event.outcome, "__") IN
        /\ Len(fields) = 6
        /\ Len(fields[1]) = 15
        /\ fields[2] = "2024-05-01"
        /\ fields[3] = replace(strip(project_name), " ", "_")
        /\ fields[4] = replace(strip(camera), " ", "_")
        /\ fields[5] = replace(strip(film_type), " ", "_")
        /\ fields[6] = ToString(frames) \o "f.csv"

====
